---- MODULE Spec2Model ----
(***************************************************************************)
(* A model of the DNS-over-HTTPS ad blocker of src/index.js: the DNS name  *)
(* parser, the allow/block classifier, the blocked-response synthesizer,   *)
(* the statistics tracker, the /dns-query request handler and the          *)
(* administration endpoints.                                               *)
(*                                                                         *)
(* Encoding.  A byte is an integer 0..255 and a DNS message (an            *)
(* ArrayBuffer) is a sequence of bytes.  A JavaScript string is the        *)
(* sequence of its UTF-16 code units, so "ad." is <<97,100,46>>.  The      *)
(* source indexes from 0 and TLA+ sequences from 1: bytes[offset] of the   *)
(* source is bytes[offset + 1] here.                                       *)
(***************************************************************************)
EXTENDS Naturals, Sequences, FiniteSets

VARIABLES
    ALLOWLIST,   \* the Set ALLOWLIST (src/index.js:84)
    BLOCKLIST,   \* the Set BLOCKLIST (src/index.js:34)
    stats,       \* the object stats (src/index.js:109); the Map in insertion order
    requests,    \* per /dns-query request: its position in handleDNSQuery and its result
    arg,         \* the argument of the function under study (function-level specifications)
    res,         \* its progress and result
    reply        \* the last response of an administration endpoint

vars == <<ALLOWLIST, BLOCKLIST, stats, requests, arg, res, reply>>

-----------------------------------------------------------------------------
(* Strings and bytes *)

Range(s) == { s[i] : i \in 1..Len(s) }

Min(a, b) == IF a <= b THEN a ELSE b

DOT == <<46>>       \* "."

\* String.prototype.toLowerCase on one code unit of a Latin-1 string
\* (every code unit String.fromCharCode makes of a byte is <= 255): A-Z,
\* and the Latin-1 capitals U+00C0..U+00DE except U+00D7.
toLowerCase1(c) ==
    IF (c >= 65 /\ c <= 90) \/ (c >= 192 /\ c <= 222 /\ c # 215)
    THEN c + 32 ELSE c

toLowerCase(s) == [i \in 1..Len(s) |-> toLowerCase1(s[i])]

\* s.slice(from) of a sequence (0-based from)
Drop(s, from) == SubSeq(s, from + 1, Len(s))

EndsWith(s, p) == Len(p) <= Len(s) /\ SubSeq(s, Len(s) - Len(p) + 1, Len(s)) = p

\* Index of the first "." of s, or 0
RECURSIVE FirstDot(_, _)
FirstDot(s, i) ==
    IF i > Len(s) THEN 0
    ELSE IF s[i] = 46 THEN i
    ELSE FirstDot(s, i + 1)

\* domain.split('.'): the parts between dots ("" gives <<"">>)
RECURSIVE split(_)
split(s) ==
    LET d == FirstDot(s, 1) IN
    IF d = 0 THEN <<s>>
    ELSE <<SubSeq(s, 1, d - 1)>> \o split(Drop(s, d))

\* parts.join('.')
RECURSIVE join(_)
join(parts) ==
    IF Len(parts) = 0 THEN <<>>
    ELSE IF Len(parts) = 1 THEN parts[1]
    ELSE parts[1] \o DOT \o join(Tail(parts))

-----------------------------------------------------------------------------
(* parseDomainFromDNS *)

\* The parser's local variables at the head of the while loop
ParseStart ==
    [offset |-> 12, labels |-> <<>>, jumped |-> FALSE, maxJumps |-> 5, done |-> FALSE]

\* (length & 0xC0) of a byte
AndC0(length) == length - (length % 64)

\* The pointer without the six high bits of its first byte
Pointer_LowByteOnly(length, next) == next

\* ((length & 0x3F) << 8) | bytes[offset + 1]
Pointer(length, next) == (length % 64) * 256 + next

\* The loop without maxJumps--: a pointer is followed however many came before
ParseStep_Unbounded(bytes, s) ==
    IF ~(s.offset < Len(bytes) /\ s.maxJumps > 0)
    THEN [s EXCEPT !.done = TRUE]
    ELSE
      LET length == bytes[s.offset + 1] IN
      IF length = 0 THEN [s EXCEPT !.done = TRUE]
      ELSE IF AndC0(length) = 192
      THEN IF s.offset + 1 >= Len(bytes)
           THEN [s EXCEPT !.done = TRUE]
           ELSE [s EXCEPT !.offset = Pointer(length, bytes[s.offset + 2]),
                          !.jumped = TRUE]
      ELSE IF length > 63 THEN [s EXCEPT !.done = TRUE]
      ELSE IF s.offset + 1 + length > Len(bytes)
      THEN [s EXCEPT !.offset = s.offset + 1, !.done = TRUE]
      ELSE [s EXCEPT !.labels = Append(s.labels,
                                       SubSeq(bytes, s.offset + 2, s.offset + 1 + length)),
                     !.offset = s.offset + 1 + length]

\* The loop were a bad label to throw into the catch block, which returns ''
ParseStep_DiscardOnBadLabel(bytes, s) ==
    IF ~(s.offset < Len(bytes) /\ s.maxJumps > 0)
    THEN [s EXCEPT !.done = TRUE]
    ELSE
      LET length == bytes[s.offset + 1] IN
      IF length = 0 THEN [s EXCEPT !.done = TRUE]
      ELSE IF AndC0(length) = 192
      THEN IF s.offset + 1 >= Len(bytes)
           THEN [s EXCEPT !.done = TRUE]
           ELSE [s EXCEPT !.offset = Pointer(length, bytes[s.offset + 2]),
                          !.jumped = TRUE,
                          !.maxJumps = s.maxJumps - 1]
      ELSE IF length > 63 THEN [s EXCEPT !.labels = <<>>, !.done = TRUE]
      ELSE IF s.offset + 1 + length > Len(bytes)
      THEN [s EXCEPT !.offset = s.offset + 1, !.labels = <<>>, !.done = TRUE]
      ELSE [s EXCEPT !.labels = Append(s.labels,
                                       SubSeq(bytes, s.offset + 2, s.offset + 1 + length)),
                     !.offset = s.offset + 1 + length]

\* One evaluation of the loop condition and, when it holds, of the loop
\* body.  The source adds 2 to offset before the first jump and then
\* overwrites it with the pointer: the addition has no effect.
ParseStep(bytes, s) ==
    IF ~(s.offset < Len(bytes) /\ s.maxJumps > 0)
    THEN [s EXCEPT !.done = TRUE]
    ELSE
      LET length == bytes[s.offset + 1] IN
      IF length = 0 THEN [s EXCEPT !.done = TRUE]
      ELSE IF AndC0(length) = 192
      THEN IF s.offset + 1 >= Len(bytes)
           THEN [s EXCEPT !.done = TRUE]
           ELSE [s EXCEPT !.offset = Pointer(length, bytes[s.offset + 2]),
                          !.jumped = TRUE,
                          !.maxJumps = s.maxJumps - 1]
      ELSE IF length > 63 THEN [s EXCEPT !.done = TRUE]
      ELSE IF s.offset + 1 + length > Len(bytes)
      THEN [s EXCEPT !.offset = s.offset + 1, !.done = TRUE]
      ELSE [s EXCEPT !.labels = Append(s.labels,
                                       SubSeq(bytes, s.offset + 2, s.offset + 1 + length)),
                     !.offset = s.offset + 1 + length]

RECURSIVE ParseLoop(_, _)
ParseLoop(bytes, s) ==
    IF s.done THEN s ELSE ParseLoop(bytes, ParseStep(bytes, s))

\* labels.join('.').toLowerCase()
ParseResult(s) == toLowerCase(join(s.labels))

parseDomainFromDNS(dnsQuery) ==
    IF Len(dnsQuery) < 12 THEN <<>>
    ELSE ParseResult(ParseLoop(dnsQuery, ParseStart))

-----------------------------------------------------------------------------
(* The rule sets *)

InitialBlocklist ==
    {
      <<100,111,117,98,108,101,99,108,105,99,107,46,110,101,116>>,   \* doubleclick.net
      <<103,111,111,103,108,101,97,100,115,101,114,118,105,99,101,115,46,99,111,109>>,   \* googleadservices.com
      <<103,111,111,103,108,101,115,121,110,100,105,99,97,116,105,111,110,46,99,111,109>>,   \* googlesyndication.com
      <<112,97,103,101,97,100,50,46,103,111,111,103,108,101,115,121,110,100,105,99,97,116,105,111,110,46,99,111,109>>,   \* pagead2.googlesyndication.com
      <<97,100,115,101,114,118,105,99,101,46,103,111,111,103,108,101,46,99,111,109>>,   \* adservice.google.com
      <<97,100,115,46,103,111,111,103,108,101,46,99,111,109>>,   \* ads.google.com
      <<103,111,111,103,108,101,45,97,110,97,108,121,116,105,99,115,46,99,111,109>>,   \* google-analytics.com
      <<103,111,111,103,108,101,116,97,103,109,97,110,97,103,101,114,46,99,111,109>>,   \* googletagmanager.com
      <<97,110,97,108,121,116,105,99,115,46,103,111,111,103,108,101,46,99,111,109>>,   \* analytics.google.com
      <<115,116,97,116,115,46,103,46,100,111,117,98,108,101,99,108,105,99,107,46,110,101,116>>,   \* stats.g.doubleclick.net
      <<97,100,46,100,111,117,98,108,101,99,108,105,99,107,46,110,101,116>>,   \* ad.doubleclick.net
      <<112,117,98,97,100,115,46,103,46,100,111,117,98,108,101,99,108,105,99,107,46,110,101,116>>,   \* pubads.g.doubleclick.net
      <<102,97,99,101,98,111,111,107,46,110,101,116>>,   \* facebook.net
      <<99,111,110,110,101,99,116,46,102,97,99,101,98,111,111,107,46,110,101,116>>,   \* connect.facebook.net
      <<112,105,120,101,108,46,102,97,99,101,98,111,111,107,46,99,111,109>>,   \* pixel.facebook.com
      <<97,110,46,102,97,99,101,98,111,111,107,46,99,111,109>>,   \* an.facebook.com
      <<103,114,97,112,104,46,102,97,99,101,98,111,111,107,46,99,111,109>>,   \* graph.facebook.com
      <<97,100,110,120,115,46,99,111,109>>,   \* adnxs.com
      <<97,100,118,101,114,116,105,115,105,110,103,46,99,111,109>>,   \* advertising.com
      <<97,100,115,114,118,114,46,111,114,103>>,   \* adsrvr.org
      <<115,109,97,114,116,97,100,115,101,114,118,101,114,46,99,111,109>>,   \* smartadserver.com
      <<99,114,105,116,101,111,46,99,111,109>>,   \* criteo.com
      <<99,114,105,116,101,111,46,110,101,116>>,   \* criteo.net
      <<111,117,116,98,114,97,105,110,46,99,111,109>>,   \* outbrain.com
      <<116,97,98,111,111,108,97,46,99,111,109>>,   \* taboola.com
      <<97,100,102,111,114,109,46,110,101,116>>,   \* adform.net
      <<97,100,109,111,98,46,99,111,109>>,   \* admob.com
      <<109,105,120,112,97,110,101,108,46,99,111,109>>,   \* mixpanel.com
      <<97,112,105,46,109,105,120,112,97,110,101,108,46,99,111,109>>,   \* api.mixpanel.com
      <<115,101,103,109,101,110,116,46,99,111,109>>,   \* segment.com
      <<115,101,103,109,101,110,116,46,105,111>>,   \* segment.io
      <<104,111,116,106,97,114,46,99,111,109>>,   \* hotjar.com
      <<109,111,117,115,101,102,108,111,119,46,99,111,109>>,   \* mouseflow.com
      <<99,114,97,122,121,101,103,103,46,99,111,109>>,   \* crazyegg.com
      <<102,117,108,108,115,116,111,114,121,46,99,111,109>>,   \* fullstory.com
      <<108,111,103,103,108,121,46,99,111,109>>,   \* loggly.com
      <<98,117,103,115,110,97,103,46,99,111,109>>,   \* bugsnag.com
      <<99,114,97,115,104,108,121,116,105,99,115,46,99,111,109>>,   \* crashlytics.com
      <<97,112,112,45,109,101,97,115,117,114,101,109,101,110,116,46,99,111,109>>,   \* app-measurement.com
      <<97,110,97,108,121,116,105,99,115,46,116,105,107,116,111,107,46,99,111,109>>,   \* analytics.tiktok.com
      <<97,100,115,45,97,112,105,46,116,105,107,116,111,107,46,99,111,109>>,   \* ads-api.tiktok.com
      <<97,110,97,108,121,116,105,99,115,45,115,103,46,116,105,107,116,111,107,46,99,111,109>>,   \* analytics-sg.tiktok.com
      <<97,100,115,46,116,119,105,116,116,101,114,46,99,111,109>>,   \* ads.twitter.com
      <<115,116,97,116,105,99,46,97,100,115,45,116,119,105,116,116,101,114,46,99,111,109>>,   \* static.ads-twitter.com
      <<97,100,115,45,97,112,105,46,116,119,105,116,116,101,114,46,99,111,109>>,   \* ads-api.twitter.com
      <<97,100,115,46,121,111,117,116,117,98,101,46,99,111,109>>,   \* ads.youtube.com
      <<118,105,100,101,111,45,97,100,45,115,116,97,116,115,46,103,111,111,103,108,101,115,121,110,100,105,99,97,116,105,111,110,46,99,111,109>>,   \* video-ad-stats.googlesyndication.com
      <<116,121,114,111,111,46,99,111,109>>,   \* tyroo.com
      <<105,110,109,111,98,105,46,99,111,109>>,   \* inmobi.com
      <<97,100,50,105,99,116,105,111,110,46,99,111,109>>,   \* ad2iction.com
      <<107,111,109,108,105,46,99,111,109>>,   \* komli.com
      <<118,100,111,112,105,97,46,99,111,109>>,   \* vdopia.com
      <<97,109,97,103,105,46,116,118>>,   \* amagi.tv
      <<109,101,100,105,97,103,117,114,117,46,99,111,109>>,   \* mediaguru.com
      <<112,114,111,112,101,108,108,101,114,97,100,115,46,99,111,109>>,   \* propellerads.com
      <<112,111,112,99,97,115,104,46,110,101,116>>,   \* popcash.net
      <<112,111,112,97,100,115,46,110,101,116>>,   \* popads.net
      <<97,100,115,116,101,114,114,97,46,99,111,109>>,   \* adsterra.com
      <<101,120,111,99,108,105,99,107,46,99,111,109>>,   \* exoclick.com
      <<106,117,105,99,121,97,100,115,46,99,111,109>>,   \* juicyads.com
      <<104,105,108,108,116,111,112,97,100,115,46,110,101,116>>,   \* hilltopads.net
      <<116,114,97,102,102,105,99,106,117,110,107,121,46,99,111,109>>,   \* trafficjunky.com
      <<97,100,115,45,115,101,114,118,105,99,101,46,99,111,109>>,   \* ads-service.com
      <<97,100,115,101,114,118,101,114,46,106,117,105,99,121,97,100,115,46,99,111,109>>,   \* adserver.juicyads.com
      <<112,108,117,103,114,117,115,104,46,99,111,109>>,   \* plugrush.com
      <<99,111,105,110,104,105,118,101,46,99,111,109>>,   \* coinhive.com
      <<99,111,105,110,45,104,105,118,101,46,99,111,109>>,   \* coin-hive.com
      <<106,115,101,99,111,105,110,46,99,111,109>>,   \* jsecoin.com
      <<109,105,110,101,114,111,46,99,99>>,   \* minero.cc
      <<99,114,121,112,116,111,45,108,111,111,116,46,99,111,109>>,   \* crypto-loot.com
      <<99,114,121,112,116,111,108,111,111,116,46,112,114,111>>,   \* cryptoloot.pro
      <<119,101,98,109,105,110,105,110,103,46,99,111>>,   \* webmining.co
      <<109,97,108,119,97,114,101,45,116,114,97,102,102,105,99,46,99,111,109>>,   \* malware-traffic.com
      <<112,104,105,115,104,105,110,103,45,115,105,116,101,46,99,111,109>>,   \* phishing-site.com
      <<98,97,100,119,97,114,101,46,99,111,109>>,   \* badware.com
      <<115,99,111,114,101,99,97,114,100,114,101,115,101,97,114,99,104,46,99,111,109>>,   \* scorecardresearch.com
      <<113,117,97,110,116,115,101,114,118,101,46,99,111,109>>,   \* quantserve.com
      <<99,104,97,114,116,98,101,97,116,46,99,111,109>>,   \* chartbeat.com
      <<110,101,119,114,101,108,105,99,46,99,111,109>>,   \* newrelic.com
      <<110,114,45,100,97,116,97,46,110,101,116>>,   \* nr-data.net
      <<112,105,110,103,100,111,109,46,110,101,116>>    \* pingdom.net
    }

InitialAllowlist ==
    {
      <<103,111,111,103,108,101,46,99,111,109>>,   \* google.com
      <<121,111,117,116,117,98,101,46,99,111,109>>,   \* youtube.com
      <<102,97,99,101,98,111,111,107,46,99,111,109>>,   \* facebook.com
      <<116,119,105,116,116,101,114,46,99,111,109>>,   \* twitter.com
      <<105,110,115,116,97,103,114,97,109,46,99,111,109>>,   \* instagram.com
      <<114,101,100,100,105,116,46,99,111,109>>,   \* reddit.com
      <<119,105,107,105,112,101,100,105,97,46,111,114,103>>,   \* wikipedia.org
      <<103,105,116,104,117,98,46,99,111,109>>,   \* github.com
      <<115,116,97,99,107,111,118,101,114,102,108,111,119,46,99,111,109>>,   \* stackoverflow.com
      <<97,109,97,122,111,110,46,99,111,109>>,   \* amazon.com
      <<110,101,116,102,108,105,120,46,99,111,109>>,   \* netflix.com
      <<99,108,111,117,100,102,108,97,114,101,46,99,111,109>>    \* cloudflare.com
    }

\* A code unit c matches the pattern character l under the flag i: c is l
\* or, when l is a lower-case ASCII letter, its capital.
MatchLetter(c, l) == c = l \/ (l >= 97 /\ l <= 122 /\ c = l - 32)

\* The literal lit matches s at the 1-based position pos, ignoring case
MatchAt(s, pos, lit) ==
    /\ pos >= 1
    /\ pos + Len(lit) - 1 <= Len(s)
    /\ \A k \in 1..Len(lit) : MatchLetter(s[pos + k - 1], lit[k])

IsDigit(c) == c >= 48 /\ c <= 57

\* The first position at or after pos that holds no digit (\d* is greedy)
RECURSIVE SkipDigits(_, _)
SkipDigits(s, pos) ==
    IF pos <= Len(s) /\ IsDigit(s[pos]) THEN SkipDigits(s, pos + 1) ELSE pos

\* /^<lit><opt>?\./i, and with digits /^<lit><opt>?\d*\./i
MatchPrefixOpt(s, lit, opt, digits) ==
    /\ MatchAt(s, 1, lit)
    /\ LET p1 == Len(lit) + 1
           p2 == IF p1 <= Len(s) /\ MatchLetter(s[p1], opt) THEN p1 + 1 ELSE p1
           p3 == IF digits THEN SkipDigits(s, p2) ELSE p2
       IN  p3 <= Len(s) /\ s[p3] = 46

\* /^<lit>/i
MatchPrefix(s, lit) == MatchAt(s, 1, lit)

\* [-\.]
IsSep(c) == c = 45 \/ c = 46

\* /[-\.]<lit>[-\.]/i
MatchInfix(s, lit) ==
    \E i \in 1..Len(s) :
        /\ i + Len(lit) + 1 <= Len(s)
        /\ IsSep(s[i])
        /\ MatchAt(s, i + 1, lit)
        /\ IsSep(s[i + Len(lit) + 1])

\* BLOCK_PATTERNS[i - 1].test(domain)
PatternTest(i, domain) ==
    CASE i = 1  -> MatchPrefixOpt(domain, <<97,100>>, 115, TRUE)                       \* /^ads?\d*\./i
      [] i = 2  -> MatchPrefixOpt(domain, <<97,110,97,108,121,116,105,99>>, 115, FALSE) \* /^analytics?\./i
      [] i = 3  -> MatchPrefixOpt(domain, <<116,114,97,99,107,105,110>>, 103, FALSE)    \* /^tracking?\./i
      [] i = 4  -> MatchPrefix(domain, <<116,101,108,101,109,101,116,114,121,46>>)      \* /^telemetry\./i
      [] i = 5  -> MatchPrefixOpt(domain, <<109,101,116,114,105,99>>, 115, FALSE)       \* /^metrics?\./i
      [] i = 6  -> MatchInfix(domain, <<97,100>>)                                       \* /[-\.]ad[-\.]/i
      [] i = 7  -> MatchInfix(domain, <<97,100,115>>)                                   \* /[-\.]ads[-\.]/i
      [] i = 8  -> MatchInfix(domain, <<116,114,97,99,107,101,114>>)                    \* /[-\.]tracker[-\.]/i
      [] i = 9  -> MatchInfix(domain, <<116,114,97,99,107,105,110,103>>)                \* /[-\.]tracking[-\.]/i
      [] i = 10 -> MatchPrefix(domain, <<97,100,118,101,114,116>>)                      \* /^advert/i
      [] i = 11 -> MatchPrefix(domain, <<98,97,110,110,101,114>>)                       \* /^banner/i
      [] i = 12 -> MatchPrefix(domain, <<99,108,105,99,107>>)                           \* /^click/i
      [] i = 13 -> MatchPrefix(domain, <<112,105,120,101,108>>)                         \* /^pixel/i
      [] i = 14 -> MatchPrefix(domain, <<116,97,103>>)                                  \* /^tag/i

\* The indices of BLOCK_PATTERNS, in order
BLOCK_PATTERNS == 1..14

\* The loop over BLOCK_PATTERNS of shouldBlock
MatchesPattern(domain) == \E i \in BLOCK_PATTERNS : PatternTest(i, domain)

\* The lookups were the loop to stop before the last label alone
HasSuffixIn_StopBeforeTld(list, domain) ==
    \/ domain \in list
    \/ LET parts == split(domain) IN
       \E i \in 1..(Len(parts) - 2) : join(Drop(parts, i)) \in list

\* list.has(domain), or list.has(parts.slice(i).join('.')) for an i in
\* 1..parts.length-1: the lookups isAllowlisted and shouldBlock both make
HasSuffixIn(list, domain) ==
    \/ domain \in list
    \/ LET parts == split(domain) IN
       \E i \in 1..(Len(parts) - 1) : join(Drop(parts, i)) \in list

\* isAllowlisted without its loop over the parent domains
isAllowlisted_ExactOnly(allowlist, domain) == domain \in allowlist

isAllowlisted(allowlist, domain) == HasSuffixIn(allowlist, domain)

\* The lookup as domain.endsWith(entry), which cuts labels in two
InBlocklist_Substring(blocklist, domain) == \E e \in blocklist : EndsWith(domain, e)

\* The exact and parent-domain checks of shouldBlock
InBlocklist(blocklist, domain) == HasSuffixIn(blocklist, domain)

\* shouldBlock without its loop over BLOCK_PATTERNS
shouldBlock_ListOnly(blocklist, domain) ==
    IF domain = <<>> THEN FALSE ELSE InBlocklist(blocklist, domain)

shouldBlock(blocklist, domain) ==
    IF domain = <<>> THEN FALSE
    ELSE InBlocklist(blocklist, domain) \/ MatchesPattern(domain)

-----------------------------------------------------------------------------
(* base64UrlDecode *)

\* The value of a character of the base64 alphabet, 64 for any other
B64Value(c) ==
    IF c >= 65 /\ c <= 90 THEN c - 65
    ELSE IF c >= 97 /\ c <= 122 THEN c - 71
    ELSE IF c >= 48 /\ c <= 57 THEN c + 4
    ELSE IF c = 43 THEN 62
    ELSE IF c = 47 THEN 63
    ELSE 64

\* str.replace(/-/g, '+').replace(/_/g, '/')
B64Standard(str) ==
    [i \in 1..Len(str) |-> IF str[i] = 45 THEN 43 ELSE IF str[i] = 95 THEN 47 ELSE str[i]]

\* while (str.length % 4) str += '='
B64Pad(str) ==
    str \o [i \in 1..((4 - (Len(str) % 4)) % 4) |-> 61]

IsAsciiWhitespace(c) == c \in {9, 10, 12, 13, 32}

IsNotAsciiWhitespace(c) == ~IsAsciiWhitespace(c)

\* The bytes of base64 data whose characters are all of the alphabet and
\* whose length is not 1 modulo 4; the bits left over at the end are dropped.
RECURSIVE B64Bytes(_)
B64Bytes(data) ==
    IF Len(data) >= 4
    THEN LET n == B64Value(data[1]) * 262144 + B64Value(data[2]) * 4096
                  + B64Value(data[3]) * 64 + B64Value(data[4])
         IN  <<n \div 65536, (n \div 256) % 256, n % 256>> \o B64Bytes(Drop(data, 4))
    ELSE IF Len(data) = 3
    THEN LET n == (B64Value(data[1]) * 4096 + B64Value(data[2]) * 64
                   + B64Value(data[3])) \div 4
         IN  <<n \div 256, n % 256>>
    ELSE IF Len(data) = 2
    THEN <<(B64Value(data[1]) * 64 + B64Value(data[2])) \div 16>>
    ELSE <<>>

\* atob(str), the forgiving-base64 decode: [ok |-> TRUE, bytes |-> ...], or
\* [ok |-> FALSE] where atob throws an InvalidCharacterError
atob(str) ==
    LET s1 == SelectSeq(str, IsNotAsciiWhitespace)
        n1 == Len(s1)
        s2 == IF n1 % 4 = 0 /\ n1 >= 2 /\ s1[n1] = 61 /\ s1[n1 - 1] = 61
              THEN SubSeq(s1, 1, n1 - 2)
              ELSE IF n1 % 4 = 0 /\ n1 >= 1 /\ s1[n1] = 61
              THEN SubSeq(s1, 1, n1 - 1)
              ELSE s1
    IN  IF Len(s2) % 4 = 1 \/ (\E i \in 1..Len(s2) : B64Value(s2[i]) = 64)
        THEN [ok |-> FALSE, bytes |-> <<>>]
        ELSE [ok |-> TRUE, bytes |-> B64Bytes(s2)]

\* base64UrlDecode(str): the decoded bytes, or ok = FALSE where it throws
base64UrlDecode(str) == atob(B64Pad(B64Standard(str)))

-----------------------------------------------------------------------------
(* trackBlockedDomain *)

\* 1-based index of the entry of the Map for domain (a Map holds a key
\* once), or 0
IndexOf(top, domain) ==
    IF \E i \in 1..Len(top) : top[i].domain = domain
    THEN CHOOSE i \in 1..Len(top) : top[i].domain = domain
    ELSE 0

\* stats.topBlockedDomains.get(domain) || 0
CountOf(top, domain) ==
    LET i == IndexOf(top, domain) IN IF i = 0 THEN 0 ELSE top[i].count

\* stats.topBlockedDomains.set(domain, count + 1): an existing key keeps its
\* place in the Map's order, a new key goes last
MapSet(top, domain, count) ==
    LET i == IndexOf(top, domain) IN
    IF i = 0 THEN Append(top, [domain |-> domain, count |-> count])
    ELSE [top EXCEPT ![i].count = count]

\* The sort with (a, b) => a[1] - b[1]: by count, ascending
SortByCountAsc(entries) ==
    LET n == Len(entries)
        place == [i \in 1..n |->
                    Cardinality({ j \in 1..n : entries[j].count < entries[i].count })
                    + Cardinality({ j \in 1..i : entries[j].count = entries[i].count })]
                 \o <<>>
        from == [k \in 1..n |-> CHOOSE i \in 1..n : place[i] = k] \o <<>>
    IN  [k \in 1..n |-> entries[from[k]]]

\* The sort were it to put, of two entries of one count, the later first
SortByCountDesc_LaterFirst(entries) ==
    LET n == Len(entries)
        place == [i \in 1..n |->
                    Cardinality({ j \in 1..n : entries[j].count > entries[i].count })
                    + Cardinality({ j \in i..n : entries[j].count = entries[i].count })]
                 \o <<>>
        from == [k \in 1..n |-> CHOOSE i \in 1..n : place[i] = k] \o <<>>
    IN  [k \in 1..n |-> entries[from[k]]]

\* Array.prototype.sort((a, b) => b[1] - a[1]): by count, descending, and
\* stable: an entry goes behind the entries of a higher count and behind
\* the entries of its own count that came before it.  (\o <<>> makes TLC
\* build each table once.)
SortByCountDesc(entries) ==
    LET n == Len(entries)
        place == [i \in 1..n |->
                    Cardinality({ j \in 1..n : entries[j].count > entries[i].count })
                    + Cardinality({ j \in 1..i : entries[j].count = entries[i].count })]
                 \o <<>>
        from == [k \in 1..n |-> CHOOSE i \in 1..n : place[i] = k] \o <<>>
    IN  [k \in 1..n |-> entries[from[k]]]

\* The size above which the Map is cut, and the number of entries kept
TopCap == 100

\* The Map after trackBlockedDomain(domain)
trackBlockedDomain(top, domain) ==
    LET set == MapSet(top, domain, CountOf(top, domain) + 1) IN
    IF Len(set) > TopCap
    THEN SubSeq(SortByCountDesc(set), 1, TopCap)
    ELSE set

-----------------------------------------------------------------------------
(* createBlockedDNSResponse *)

Zeros(n) == [i \in 1..n |-> 0]

\* The body without the two writes that clear ANCOUNT
BlockedBody_KeepAncount(query) ==
    LET copy == query \o Zeros(16) IN
    [i \in 1..Len(copy) |->
        IF i = 3 THEN 129 ELSE IF i = 4 THEN 131 ELSE copy[i]]

\* The body were it built from the header alone, the rest left zero
BlockedBody_HeaderOnly(query) ==
    LET copy == SubSeq(query, 1, Min(12, Len(query))) \o Zeros(Len(query) + 16) IN
    [i \in 1..(Len(query) + 16) |->
        IF i = 3 THEN 129 ELSE IF i = 4 THEN 131
        ELSE IF i = 7 \/ i = 8 THEN 0 ELSE copy[i]]

\* The body of the Response: the query, 16 more bytes, and header bytes
\* 2, 3, 6 and 7 overwritten
BlockedBody(query) ==
    LET copy == query \o Zeros(16) IN
    [i \in 1..Len(copy) |->
        IF i = 3 THEN 129          \* response[2] = 0x81
        ELSE IF i = 4 THEN 131     \* response[3] = 0x83
        ELSE IF i = 7 \/ i = 8 THEN 0
        ELSE copy[i]]

IsHttpWhitespace(c) == c \in {9, 10, 13, 32}

RECURSIVE StripLeading(_)
StripLeading(v) ==
    IF v # <<>> /\ IsHttpWhitespace(Head(v)) THEN StripLeading(Tail(v)) ELSE v

RECURSIVE StripTrailing(_)
StripTrailing(v) ==
    IF v # <<>> /\ IsHttpWhitespace(v[Len(v)])
    THEN StripTrailing(SubSeq(v, 1, Len(v) - 1)) ELSE v

\* new Response(.., {headers: {'X-Blocked-Domain': domain}}) accepts the
\* header value: the Headers constructor strips leading and trailing HTTP
\* whitespace and throws a TypeError on a value that then holds NUL, LF or CR.
HeaderValueValid(v) ==
    \A c \in Range(StripTrailing(StripLeading(v))) : c \notin {0, 10, 13}

\* createBlockedDNSResponse(query, domain): the Response, or ok = FALSE
\* where the Response constructor throws
createBlockedDNSResponse(query, domain) ==
    IF HeaderValueValid(domain)
    THEN [ok |-> TRUE, kind |-> "blocked", status |-> 200, body |-> BlockedBody(query)]
    ELSE [ok |-> FALSE, kind |-> "none", status |-> 0, body |-> <<>>]

-----------------------------------------------------------------------------
(* handleDNSQuery and forwardToUpstream *)

\* Number of /dns-query requests a behaviour holds, numbered as they arrive
MaxRequests == 2

RequestIds == 1..MaxRequests

NoInput == [method |-> "NONE", hasDns |-> FALSE, dns |-> <<>>, body |-> <<>>]

NoResponse == [kind |-> "none", status |-> 0, body |-> <<>>]

\* A request that has not arrived.  class is the branch handleDNSQuery took
\* ("UNPARSED", "ALLOW", "BLOCK"); sent and fetched are the body and the
\* number of the fetch calls it made; incTotal, incBlocked and incAllowed
\* count its increments of the three counters; after holds the requests
\* that had been answered when it arrived.
NewRequest ==
    [pc |-> "new", input |-> NoInput, dnsQuery |-> <<>>, domain |-> <<>>,
     class |-> "none", sent |-> <<>>, fetched |-> 0, response |-> NoResponse,
     incTotal |-> 0, incBlocked |-> 0, incAllowed |-> 0, after |-> {}]

InitialStats ==
    [totalQueries |-> 0, blockedQueries |-> 0, allowedQueries |-> 0,
     topBlockedDomains |-> <<>>]

\* forwardToUpstream(dnsQuery) up to its await: fetch is called with the body
forwardToUpstream(req, dnsQuery) ==
    [req EXCEPT !.pc = "fetch", !.sent = dnsQuery, !.fetched = @ + 1]

\* The test !domain without effect
Unparsed_Never(domain) == FALSE

\* !domain: parseDomainFromDNS gave the empty string
Unparsed(domain) == domain = <<>>

\* handleDNSQuery from the call of parseDomainFromDNS to its return or to
\* the next await: the request and the stats it leaves
Classify(req, st, allowlist, blocklist, dnsQuery) ==
    LET domain == parseDomainFromDNS(dnsQuery)
        parsed == [req EXCEPT !.dnsQuery = dnsQuery, !.domain = domain]
    IN
    IF Unparsed(domain)
    THEN [req |-> forwardToUpstream([parsed EXCEPT !.class = "UNPARSED"], dnsQuery),
          stats |-> st]
    ELSE IF isAllowlisted(allowlist, domain)
    THEN [req |-> forwardToUpstream(
                     [parsed EXCEPT !.class = "ALLOW", !.incAllowed = @ + 1], dnsQuery),
          stats |-> [st EXCEPT !.allowedQueries = @ + 1]]
    ELSE IF shouldBlock(blocklist, domain)
    THEN LET response == createBlockedDNSResponse(dnsQuery, domain)
             blocked == [parsed EXCEPT !.class = "BLOCK", !.incBlocked = @ + 1]
         IN  [req |-> IF response.ok
                      THEN [blocked EXCEPT !.pc = "done",
                                           !.response = [kind |-> response.kind,
                                                         status |-> response.status,
                                                         body |-> response.body]]
                      ELSE [blocked EXCEPT !.pc = "catch"],
              stats |-> [st EXCEPT !.blockedQueries = @ + 1,
                                   !.topBlockedDomains = trackBlockedDomain(@, domain)]]
    ELSE [req |-> forwardToUpstream(
                     [parsed EXCEPT !.class = "ALLOW", !.incAllowed = @ + 1], dnsQuery),
          stats |-> [st EXCEPT !.allowedQueries = @ + 1]]

Answered == { q \in RequestIds : requests[q].pc = "done" }

\* A request arrives: handleDNSQuery up to its first await or its return
Receive(r, input) ==
    /\ requests[r].pc = "new"
    /\ \A q \in RequestIds : q < r => requests[q].pc # "new"
    /\ LET arrived == [requests[r] EXCEPT !.input = input, !.incTotal = @ + 1,
                                          !.after = Answered]
           counted == [stats EXCEPT !.totalQueries = @ + 1]
       IN
       IF input.method = "GET" /\ input.hasDns
       THEN LET decoded == base64UrlDecode(input.dns) IN
            IF decoded.ok
            THEN LET out == Classify(arrived, counted, ALLOWLIST, BLOCKLIST, decoded.bytes)
                 IN  /\ requests' = [requests EXCEPT ![r] = out.req]
                     /\ stats' = out.stats
            ELSE /\ requests' = [requests EXCEPT ![r] = [arrived EXCEPT !.pc = "catch"]]
                 /\ stats' = counted
       ELSE IF input.method = "POST"
       THEN /\ requests' = [requests EXCEPT ![r] = [arrived EXCEPT !.pc = "body"]]
            /\ stats' = counted
       ELSE /\ requests' = [requests EXCEPT ![r] =
                   [arrived EXCEPT !.pc = "done",
                                   !.response = [kind |-> "invalid", status |-> 400,
                                                 body |-> <<>>]]]
            /\ stats' = counted
    /\ UNCHANGED <<ALLOWLIST, BLOCKLIST, arg, res, reply>>

\* await request.arrayBuffer() of a POST resolves: handleDNSQuery goes on
BodyRead(r) ==
    /\ requests[r].pc = "body"
    /\ LET out == Classify(requests[r], stats, ALLOWLIST, BLOCKLIST,
                           requests[r].input.body)
       IN  /\ requests' = [requests EXCEPT ![r] = out.req]
           /\ stats' = out.stats
    /\ UNCHANGED <<ALLOWLIST, BLOCKLIST, arg, res, reply>>

\* await request.arrayBuffer() of a POST rejects (the body stream fails):
\* the catch block is entered with nothing parsed or classified
BodyFail(r) ==
    /\ requests[r].pc = "body"
    /\ requests' = [requests EXCEPT ![r] = [@ EXCEPT !.pc = "catch"]]
    /\ UNCHANGED <<ALLOWLIST, BLOCKLIST, stats, arg, res, reply>>

\* The catch block were it to throw the error again instead of forwarding
CatchBody_Rethrow(r) ==
    /\ requests[r].pc = "catch"
    /\ requests' = [requests EXCEPT ![r] =
          [@ EXCEPT !.pc = "done",
                    !.response = [kind |-> "thrown", status |-> 0, body |-> <<>>]]]
    /\ UNCHANGED <<ALLOWLIST, BLOCKLIST, stats, arg, res, reply>>

\* The catch block: await request.arrayBuffer() rejects where the body of a
\* POST has been read already or could not be read, and handleDNSQuery then
\* throws; a GET has no body and the empty buffer is forwarded
CatchBody(r) ==
    /\ requests[r].pc = "catch"
    /\ requests' = [requests EXCEPT ![r] =
          IF requests[r].input.method = "POST"
          THEN [@ EXCEPT !.pc = "done",
                         !.response = [kind |-> "thrown", status |-> 0, body |-> <<>>]]
          ELSE forwardToUpstream(@, <<>>)]
    /\ UNCHANGED <<ALLOWLIST, BLOCKLIST, stats, arg, res, reply>>

\* await fetch(..) resolves: the upstream's status and body are passed on
FetchResolve(r, status, body) ==
    /\ requests[r].pc = "fetch"
    /\ requests' = [requests EXCEPT ![r] =
          [@ EXCEPT !.pc = "done",
                    !.response = [kind |-> "upstream", status |-> status, body |-> body]]]
    /\ UNCHANGED <<ALLOWLIST, BLOCKLIST, stats, arg, res, reply>>

\* await fetch(..) rejects: 'DNS resolution failed', status 502
FetchReject(r) ==
    /\ requests[r].pc = "fetch"
    /\ requests' = [requests EXCEPT ![r] =
          [@ EXCEPT !.pc = "done",
                    !.response = [kind |-> "failed", status |-> 502, body |-> <<>>]]]
    /\ UNCHANGED <<ALLOWLIST, BLOCKLIST, stats, arg, res, reply>>

\* an administration endpoint's response before any was produced
NoReply == [endpoint |-> "none", status |-> 0]

\* the response of a rejected add: { success: false } with status 400
Rejected(endpoint) == [endpoint |-> endpoint, status |-> 400, success |-> FALSE]

\* the response of an accepted add: { success: true, domain }
Accepted(endpoint, domain) ==
    [endpoint |-> endpoint, status |-> 200, success |-> TRUE, domain |-> domain]

\* handleAddBlock were it to move the domain out of the other list
handleAddBlock_MoveFromAllow(domain) ==
    /\ BLOCKLIST' = IF domain # <<>> /\ domain \notin BLOCKLIST
                    THEN BLOCKLIST \cup {domain} ELSE BLOCKLIST
    /\ ALLOWLIST' = IF domain # <<>> /\ domain \notin BLOCKLIST
                    THEN ALLOWLIST \ {domain} ELSE ALLOWLIST
    /\ reply' = IF domain # <<>> /\ domain \notin BLOCKLIST
                THEN Accepted("/add-block", domain) ELSE Rejected("/add-block")
    /\ UNCHANGED <<stats, requests, arg, res>>

\* handleAddBlock with the parameter domain (<<>>: missing or empty)
handleAddBlock(domain) ==
    /\ BLOCKLIST' = IF domain # <<>> /\ domain \notin BLOCKLIST
                    THEN BLOCKLIST \cup {domain} ELSE BLOCKLIST
    /\ reply' = IF domain # <<>> /\ domain \notin BLOCKLIST
                THEN Accepted("/add-block", domain) ELSE Rejected("/add-block")
    /\ UNCHANGED <<ALLOWLIST, stats, requests, arg, res>>

\* handleAddAllow with the parameter domain (<<>>: missing or empty)
handleAddAllow(domain) ==
    /\ ALLOWLIST' = IF domain # <<>> /\ domain \notin ALLOWLIST
                    THEN ALLOWLIST \cup {domain} ELSE ALLOWLIST
    /\ reply' = IF domain # <<>> /\ domain \notin ALLOWLIST
                THEN Accepted("/add-allow", domain) ELSE Rejected("/add-allow")
    /\ UNCHANGED <<BLOCKLIST, stats, requests, arg, res>>

\* the number of entries the /stats report lists
TopReported == 10

\* handleBlocklist: the size and the entries of the Blocklist (the order
\* of the sorted array and the time stamp are not part of the model)
handleBlocklist ==
    /\ reply' = [endpoint |-> "/blocklist", status |-> 200,
                 total |-> Cardinality(BLOCKLIST), domains |-> BLOCKLIST,
                 patterns |-> Cardinality(BLOCK_PATTERNS)]
    /\ UNCHANGED <<ALLOWLIST, BLOCKLIST, stats, requests, arg, res>>

\* handleAllowlist: the size and the entries of the Allowlist
handleAllowlist ==
    /\ reply' = [endpoint |-> "/allowlist", status |-> 200,
                 total |-> Cardinality(ALLOWLIST), domains |-> ALLOWLIST]
    /\ UNCHANGED <<ALLOWLIST, BLOCKLIST, stats, requests, arg, res>>

\* handleStats: the counters, the TopReported entries of the Map with the
\* highest counts and the sizes of the lists (blockRate and uptime, a
\* formatted ratio and a clock reading, are not part of the model)
handleStats ==
    /\ reply' = [endpoint |-> "/stats", status |-> 200,
                 totalQueries |-> stats.totalQueries,
                 blockedQueries |-> stats.blockedQueries,
                 allowedQueries |-> stats.allowedQueries,
                 topBlockedDomains |->
                     LET sorted == SortByCountDesc(stats.topBlockedDomains)
                     IN  SubSeq(sorted, 1, Min(TopReported, Len(sorted))),
                 blocklistSize |-> Cardinality(BLOCKLIST),
                 allowlistSize |-> Cardinality(ALLOWLIST),
                 patternCount |-> Cardinality(BLOCK_PATTERNS)]
    /\ UNCHANGED <<ALLOWLIST, BLOCKLIST, stats, requests, arg, res>>

-----------------------------------------------------------------------------
(* DNS messages and requests given to the model *)

L_ad          == <<97,100>>
L_ads         == <<97,100,115>>
L_com         == <<99,111,109>>
L_doubleclick == <<100,111,117,98,108,101,99,108,105,99,107>>
L_DoubleClick == <<68,111,117,98,108,101,67,108,105,99,107>>
L_example     == <<101,120,97,109,112,108,101>>
L_google      == <<103,111,111,103,108,101>>
L_net         == <<110,101,116>>
L_NET         == <<78,69,84>>
L_otherads    == <<111,116,104,101,114,97,100,115>>
L_sub         == <<115,117,98>>
L_x           == <<120>>
L_LF          == <<10>>

\* A name in wire format: each label after its length, then the zero byte
RECURSIVE EncodeName(_)
EncodeName(labels) ==
    IF labels = <<>> THEN <<0>>
    ELSE <<Len(Head(labels))>> \o Head(labels) \o EncodeName(Tail(labels))

\* A 12-byte header: ID, flags, QDCOUNT = 1, ANCOUNT, NSCOUNT = ARCOUNT = 0
Header(id, flags, ancount) ==
    id \o flags \o <<0, 1>> \o ancount \o <<0, 0, 0, 0>>

\* QTYPE = A, QCLASS = IN
TypeClass == <<0, 1, 0, 1>>

\* A standard query (RD = 1) for the name
Query(labels) ==
    Header(<<171, 205>>, <<1, 0>>, <<0, 0>>) \o EncodeName(labels) \o TypeClass

\* The character of the base64url alphabet of a 6-bit value
B64Char(v) ==
    IF v < 26 THEN v + 65
    ELSE IF v < 52 THEN v + 71
    ELSE IF v < 62 THEN v - 4
    ELSE IF v = 62 THEN 45
    ELSE 95

\* The base64url text, without padding, that a DoH client sends for bytes
RECURSIVE Base64UrlEncode(_)
Base64UrlEncode(bytes) ==
    IF Len(bytes) >= 3
    THEN LET n == bytes[1] * 65536 + bytes[2] * 256 + bytes[3] IN
         <<B64Char(n \div 262144), B64Char((n \div 4096) % 64),
           B64Char((n \div 64) % 64), B64Char(n % 64)>>
         \o Base64UrlEncode(Drop(bytes, 3))
    ELSE IF Len(bytes) = 2
    THEN LET n == (bytes[1] * 256 + bytes[2]) * 4 IN
         <<B64Char(n \div 4096), B64Char((n \div 64) % 64), B64Char(n % 64)>>
    ELSE IF Len(bytes) = 1
    THEN LET n == bytes[1] * 16 IN <<B64Char(n \div 64), B64Char(n % 64)>>
    ELSE <<>>

Post(message) == [method |-> "POST", hasDns |-> FALSE, dns |-> <<>>, body |-> message]

Get(message) ==
    [method |-> "GET", hasDns |-> TRUE, dns |-> Base64UrlEncode(message), body |-> <<>>]

GetText(dns) == [method |-> "GET", hasDns |-> TRUE, dns |-> dns, body |-> <<>>]

\* The requests of the specification Spec
Inputs ==
    { Post(Query(<<L_DoubleClick, L_NET>>)),       \* in BLOCKLIST once lower-cased
      Post(Query(<<L_example, L_com>>)),           \* no rule matches
      Get(Query(<<L_example, L_com>>)),
      Post(<<171, 205, 1, 0>>),                    \* shorter than a header
      GetText(<<65, 42, 65, 65>>),                 \* "A*AA": not base64
      Get(Query(<<L_ad, L_LF, L_com>>)),           \* a label holding a line feed
      [method |-> "PUT", hasDns |-> FALSE, dns |-> <<>>, body |-> <<>>] }

\* The domains given to /add-block and /add-allow; <<>> is a missing parameter
AddDomains == { <<>>, join(<<L_example, L_com>>) }

\* The answers of the upstream resolver: a status and a body
UpstreamAnswers == { <<200, <<1>>>>, <<503, <<>>>> }

-----------------------------------------------------------------------------
(* The worker: /dns-query requests, /add-block and /add-allow *)

NotRun == [pc |-> "idle"]

Init ==
    /\ ALLOWLIST = InitialAllowlist
    /\ BLOCKLIST = InitialBlocklist
    /\ stats = InitialStats
    /\ requests = [r \in RequestIds |-> NewRequest]
    /\ arg = <<>>
    /\ res = NotRun
    /\ reply = NoReply

Next ==
    \/ \E r \in RequestIds, input \in Inputs : Receive(r, input)
    \/ \E r \in RequestIds : BodyRead(r)
    \/ \E r \in RequestIds : BodyFail(r)
    \/ \E r \in RequestIds : CatchBody(r)
    \/ \E r \in RequestIds, a \in UpstreamAnswers : FetchResolve(r, a[1], a[2])
    \/ \E r \in RequestIds : FetchReject(r)
    \/ \E d \in AddDomains : handleAddBlock(d)
    \/ \E d \in AddDomains : handleAddAllow(d)

Spec == Init /\ [][Next]_vars

-----------------------------------------------------------------------------
(* Notions the properties are stated with *)

\* d equals an entry of list or ends with "." followed by an entry
SuffixMatch(list, d) == \E e \in list : d = e \/ EndsWith(d, DOT \o e)

\* handleDNSQuery takes its branch for request r in this step
Classifies(r) == requests[r].class = "none" /\ requests'[r].class # "none"

\* The request was forwarded as it came, by one fetch call
ForwardedAsIs(req) ==
    /\ req.fetched = 1
    /\ req.sent = req.dnsQuery
    /\ req.response.kind \in {"none", "upstream", "failed"}

\* The bytes the client sent: the body of a POST, the bytes whose base64url
\* text is the dns parameter of a GET
IsOriginalQuery(req, bytes) ==
    IF req.input.method = "POST" THEN bytes = req.input.body
    ELSE Base64UrlEncode(bytes) = req.input.dns

-----------------------------------------------------------------------------
(* One request at a time, over many names and rule sets *)

L_org     == <<111,114,103>>
L_server  == <<109,121,45,97,100,115,45,115,101,114,118,101,114>>   \* my-ads-server
L_tracker == <<116,114,97,99,107,101,114>>

\* Names from one to five labels: a name of or under a rule, or of none
QueryBases ==
    { <<L_example, L_com>>, <<L_ads, L_example, L_com>>, <<L_otherads, L_example, L_com>>,
      <<L_google, L_com>>, <<L_ads, L_google, L_com>>, <<L_doubleclick, L_net>>,
      <<L_DoubleClick, L_NET>>, <<L_server, L_org>>, <<L_tracker, L_org>>,
      <<L_com>>, <<L_ad, L_LF, L_com>> }

QueryPrefixes == { <<>>, <<L_sub>>, <<L_x, L_sub>> }

QueryNames == { p \o b : p \in QueryPrefixes, b \in QueryBases }

\* Messages parseDomainFromDNS gets no name from
Unparsable ==
    { <<>>,                                                          \* no bytes at all
      <<171, 205, 1, 0>>,                                            \* shorter than a header
      Header(<<171, 205>>, <<1, 0>>, <<0, 0>>),                      \* a header alone
      Query(<<>>),                                                   \* the root name
      Header(<<171, 205>>, <<1, 0>>, <<0, 0>>) \o <<64, 97, 0>>,     \* a length byte of 64
      Header(<<171, 205>>, <<1, 0>>, <<0, 0>>) \o <<5, 97, 100>>,    \* a label past the end
      Header(<<171, 205>>, <<1, 0>>, <<0, 0>>) \o <<192, 12>>,       \* a pointer at itself
      Header(<<171, 205>>, <<1, 0>>, <<0, 0>>) \o <<192>> }          \* half a pointer

QueryMessages == { Query(n) : n \in QueryNames } \cup Unparsable

QueryInputs == { Post(m) : m \in QueryMessages } \cup { Get(m) : m \in QueryMessages }

\* The domains given to /add-block and /add-allow
QueryAddDomains ==
    { <<>>, join(<<L_example, L_com>>), join(<<L_ads, L_example, L_com>>), L_com }

QueryNext ==
    \/ \E input \in QueryInputs : Receive(1, input)
    \/ BodyRead(1)
    \/ BodyFail(1)
    \/ CatchBody(1)
    \/ \E a \in UpstreamAnswers : FetchResolve(1, a[1], a[2])
    \/ FetchReject(1)
    \/ \E d \in QueryAddDomains : handleAddBlock(d)
    \/ \E d \in QueryAddDomains : handleAddAllow(d)

QuerySpec == Init /\ [][QueryNext]_vars

-----------------------------------------------------------------------------
(* Properties of the classification and of the request handler *)

\* C1: a query for a domain that is in the Allowlist, or has a parent suffix
\* in it, is classified ALLOW and forwarded upstream, whatever the Blocklist
\* and the patterns say of it, and is never answered with a blocked response.
C1_AllowOverridesBlock ==
    /\ [][\A r \in RequestIds :
            (Classifies(r) /\ SuffixMatch(ALLOWLIST, requests'[r].domain))
            => /\ requests'[r].class = "ALLOW"
               /\ requests'[r].pc = "fetch"
               /\ ForwardedAsIs(requests'[r])]_vars
    /\ [](\A r \in RequestIds :
            requests[r].class = "ALLOW" => ForwardedAsIs(requests[r]))

\* An allowlisted name that the Blocklist holds too was answered by upstream
C1_Witness ==
    \E r \in RequestIds :
        /\ requests[r].domain \in BLOCKLIST
        /\ requests[r].domain \notin ALLOWLIST
        /\ SuffixMatch(ALLOWLIST, requests[r].domain)
        /\ requests[r].class = "ALLOW"
        /\ requests[r].response.kind = "upstream"

\* C3: a query for a non-empty domain with no Allowlist match is classified
\* BLOCK exactly when the domain or a parent suffix is in the Blocklist or a
\* pattern matches it; otherwise it is classified ALLOW and forwarded.
C3_Precedence ==
    [][\A r \in RequestIds :
         (/\ Classifies(r)
          /\ requests'[r].domain # <<>>
          /\ ~SuffixMatch(ALLOWLIST, requests'[r].domain))
         => /\ requests'[r].class = "BLOCK"
               <=> (\/ SuffixMatch(BLOCKLIST, requests'[r].domain)
                    \/ MatchesPattern(requests'[r].domain))
            /\ requests'[r].class # "BLOCK"
               => /\ requests'[r].class = "ALLOW"
                  /\ requests'[r].pc = "fetch"
                  /\ ForwardedAsIs(requests'[r])]_vars

\* A name blocked by a pattern alone, and one allowed by default
C3_Witness ==
    \E r \in RequestIds :
        /\ requests[r].domain # <<>>
        /\ ~SuffixMatch(ALLOWLIST, requests[r].domain)
        /\ ~SuffixMatch(BLOCKLIST, requests[r].domain)
        /\ MatchesPattern(requests[r].domain)
        /\ requests[r].class = "BLOCK"
        /\ requests[r].response.kind = "blocked"

\* C10: a request whose message gives no domain is not classified against
\* the rule sets, is not blocked and does not fail by itself: its bytes go
\* upstream unchanged and only totalQueries counts it.
C10_ParseFailurePassesThrough ==
    \A r \in RequestIds :
        (requests[r].class # "none" /\ parseDomainFromDNS(requests[r].dnsQuery) = <<>>)
        => /\ requests[r].class = "UNPARSED"
           /\ requests[r].pc \in {"fetch", "done"}
           /\ ForwardedAsIs(requests[r])
           /\ IsOriginalQuery(requests[r], requests[r].sent)
           /\ requests[r].incTotal = 1
           /\ requests[r].incBlocked = 0
           /\ requests[r].incAllowed = 0

\* A message with an invalid first length byte was passed on and answered
C10_Witness ==
    \E r \in RequestIds :
        /\ requests[r].class = "UNPARSED"
        /\ Len(requests[r].dnsQuery) > 12
        /\ requests[r].dnsQuery[13] = 64
        /\ requests[r].sent = requests[r].dnsQuery
        /\ requests[r].response.kind = "upstream"

\* C9: a request classified BLOCK makes no upstream call, counts once in
\* totalQueries and blockedQueries and not in allowedQueries, and is
\* answered with the synthesized response.
C9_BlockedPathIsLocal ==
    \A r \in RequestIds :
        requests[r].class = "BLOCK"
        => /\ requests[r].fetched = 0
           /\ requests[r].pc = "done"
           /\ requests[r].response.kind = "blocked"
           /\ requests[r].incTotal = 1
           /\ requests[r].incBlocked = 1
           /\ requests[r].incAllowed = 0

\* C8: a repeat of an allowed query that upstream has answered makes no
\* upstream call and returns the same bytes.
C8_RepeatServedFromCache ==
    \A r1, r2 \in RequestIds :
        (/\ r1 \in requests[r2].after
         /\ requests[r1].response.kind = "upstream"
         /\ requests[r1].response.status = 200
         /\ requests[r1].class = "ALLOW"
         /\ requests[r2].class = "ALLOW"
         /\ requests[r2].dnsQuery = requests[r1].dnsQuery)
        => /\ requests[r2].fetched = 0
           /\ requests[r2].pc = "done"
           /\ requests[r2].response.body = requests[r1].response.body

-----------------------------------------------------------------------------
(* parseDomainFromDNS, one loop iteration at a time *)

\* Longest question section of the messages given to the parser
MaxTail == 4

\* The bytes of a question section: zero, label lengths, letters, length
\* bytes that are invalid, and pointers with their second bytes
TailBytes == {0, 1, 12, 14, 64, 97, 192, 193}

RECURSIVE Tails(_)
Tails(n) ==
    IF n = 0 THEN {<<>>}
    ELSE LET shorter == Tails(n - 1) IN
         shorter \cup { Append(t, b) : t \in { s \in shorter : Len(s) = n - 1 },
                                       b \in TailBytes }

\* A header whose bytes a backward pointer can read as labels
ParseHeader == <<1, 65, 192, 12, 0, 1, 0, 0, 0, 0, 0, 0>>

ParseMessages ==
    { ParseHeader \o t : t \in Tails(MaxTail) } \cup { SubSeq(ParseHeader, 1, 11) }

ParseInit ==
    /\ ALLOWLIST = InitialAllowlist
    /\ BLOCKLIST = InitialBlocklist
    /\ stats = InitialStats
    /\ requests = [r \in RequestIds |-> NewRequest]
    /\ arg \in ParseMessages
    /\ res = NotRun
    /\ reply = NoReply

\* parseDomainFromDNS(arg) is called: the length check and the locals
ParseCall ==
    /\ res.pc = "idle"
    /\ res' = IF Len(arg) < 12
              THEN [pc |-> "returned", state |-> ParseStart, jumps |-> 0, domain |-> <<>>]
              ELSE [pc |-> "loop", state |-> ParseStart, jumps |-> 0, domain |-> <<>>]
    /\ UNCHANGED <<ALLOWLIST, BLOCKLIST, stats, requests, arg, reply>>

\* One evaluation of the while condition and of the loop body; jumps counts
\* the pointers followed
ParseIterate ==
    /\ res.pc = "loop"
    /\ ~res.state.done
    /\ LET next == ParseStep(arg, res.state) IN
       res' = [res EXCEPT !.state = next,
                          !.jumps = IF next.maxJumps < res.state.maxJumps
                                    THEN @ + 1 ELSE @]
    /\ UNCHANGED <<ALLOWLIST, BLOCKLIST, stats, requests, arg, reply>>

\* return labels.join('.').toLowerCase()
ParseReturn ==
    /\ res.pc = "loop"
    /\ res.state.done
    /\ res' = [res EXCEPT !.pc = "returned", !.domain = ParseResult(res.state)]
    /\ UNCHANGED <<ALLOWLIST, BLOCKLIST, stats, requests, arg, reply>>

ParseNext == ParseCall \/ ParseIterate \/ ParseReturn

\* A call of a synchronous function runs to its end
ParseSpec == ParseInit /\ [][ParseNext]_vars /\ WF_vars(ParseNext)

\* The pointers of a message that point at themselves or at one another
\* keep the parser jumping until maxJumps is used up
\* C4: parseDomainFromDNS returns on every message, follows at most 5
\* pointers, and returns the name made of the labels it has collected.
C4_PointerLoopSafety ==
    /\ <>(res.pc = "returned")
    /\ [](res.pc # "idle" => res.jumps <= 5)
    /\ [](res.pc = "returned" =>
            res.domain = IF Len(arg) < 12 THEN <<>>
                         ELSE toLowerCase(join(res.state.labels)))
    /\ [](res.pc = "returned" => res.domain = parseDomainFromDNS(arg))

\* A pointer at itself was followed 5 times and the parser returned
C4_Witness ==
    /\ res.pc = "returned"
    /\ Len(arg) >= 14
    /\ arg[13] = 192
    /\ arg[14] = 12
    /\ res.jumps = 5


\* The byte at the offset is a length in 64..191, or the length of a label
\* that runs past the end of the message
BadLabelAt(bytes, offset) ==
    LET length == bytes[offset + 1] IN
    \/ length >= 64 /\ length <= 191
    \/ length >= 1 /\ length <= 63 /\ offset + 1 + length > Len(bytes)

\* C17: graceful degradation on a bad label: when the loop of
\* parseDomainFromDNS meets a length byte in 64..191 or a label whose
\* length runs past the end of the message, it stops with the labels
\* collected so far, and what is then returned is exactly those labels
\* joined with "." and lower-cased.
C17_BadLabelKeepsLabels ==
    /\ [][ (/\ res.pc = "loop"
            /\ ~res.state.done
            /\ res.state.offset < Len(arg)
            /\ res.state.maxJumps > 0
            /\ BadLabelAt(arg, res.state.offset))
           => (/\ res'.pc = "loop"
               /\ res'.state.done
               /\ res'.state.labels = res.state.labels) ]_vars
    /\ [][ (res.pc = "loop" /\ res.state.done)
           => (/\ res'.pc = "returned"
               /\ res'.domain = toLowerCase(join(res.state.labels))) ]_vars

\* The question section 01 'a' 40: the label a, then the length byte 64
C17_Witness ==
    /\ res.pc = "returned"
    /\ Len(arg) = 15
    /\ arg[13] = 1
    /\ arg[14] = 97
    /\ arg[15] = 64
    /\ res.domain = <<97>>
-----------------------------------------------------------------------------
(* A name written once and pointed at, and the same name spelled out *)

\* Longest name, in labels, of the two messages
MaxLabels == 2

\* Labels of one, two and three bytes, with capitals and a hyphen
NameLabels == { <<97>>, <<66, 99>>, <<120, 45, 89>> }

RECURSIVE LabelSeqs(_)
LabelSeqs(n) ==
    IF n = 0 THEN {<<>>}
    ELSE LET shorter == LabelSeqs(n - 1) IN
         shorter \cup { Append(s, l) : s \in { t \in shorter : Len(t) = n - 1 },
                                       l \in NameLabels }

\* Bytes between the question and the stored name: none, or enough of them
\* for the stored name to lie past offset 255
Fillers == { 0, 250 }

\* A compression pointer at the offset
PointerTo(offset) == <<192 + (offset \div 256), offset % 256>>

\* The labels own, then a pointer at the labels stored after the question
\* and the filler
Compressed(own, stored, filler) ==
    LET question == Header(<<171, 205>>, <<1, 0>>, <<0, 0>>)
                    \o SubSeq(EncodeName(own), 1, Len(EncodeName(own)) - 1)
        at == Len(question) + 2 + Len(TypeClass) + filler
    IN  question \o PointerTo(at) \o TypeClass \o Zeros(filler) \o EncodeName(stored)

\* The same name with every label in the question section
Uncompressed(own, stored) == Query(own \o stored)

CompressInit ==
    /\ ALLOWLIST = InitialAllowlist
    /\ BLOCKLIST = InitialBlocklist
    /\ stats = InitialStats
    /\ requests = [r \in RequestIds |-> NewRequest]
    /\ arg \in { [own |-> o, stored |-> s, filler |-> f] :
                    o \in LabelSeqs(MaxLabels), s \in LabelSeqs(MaxLabels), f \in Fillers }
    /\ res = NotRun
    /\ reply = NoReply

\* parseDomainFromDNS on the two messages
CompressParse ==
    /\ res.pc = "idle"
    /\ res' = [pc |-> "returned",
               compressed |->
                   parseDomainFromDNS(Compressed(arg.own, arg.stored, arg.filler)),
               plain |-> parseDomainFromDNS(Uncompressed(arg.own, arg.stored))]
    /\ UNCHANGED <<ALLOWLIST, BLOCKLIST, stats, requests, arg, reply>>

CompressNext == CompressParse

CompressSpec == CompressInit /\ [][CompressNext]_vars

\* C5: a message whose question refers through one compression pointer to
\* labels stored elsewhere gives the domain of the message that spells the
\* same labels out in the question.
C5_CompressionRoundTrip ==
    res.pc = "returned"
    => /\ res.compressed = res.plain
       /\ res.compressed = toLowerCase(join(arg.own \o arg.stored))

\* Labels before the pointer, labels behind it past offset 255
C5_Witness ==
    /\ res.pc = "returned"
    /\ Len(arg.own) >= 1
    /\ Len(arg.stored) >= 2
    /\ arg.filler = 250
    /\ res.compressed = res.plain
    /\ Len(res.compressed) > Len(join(arg.own))


(***************************************************************************)
(* Names behind a chain of compression pointers (src/index.js:212-235).    *)
(***************************************************************************)

\* Longest chain of pointers in the messages
MaxChain == 6

\* n pointers, each at the two bytes after itself, the first at offset at
RECURSIVE PointerChain(_, _)
PointerChain(at, n) ==
    IF n = 0 THEN <<>> ELSE PointerTo(at + 2) \o PointerChain(at + 2, n - 1)

\* The labels own, then jumps pointers one after the other, the last at the
\* labels stored and their zero byte
Chained(own, jumps, stored) ==
    LET question == Header(<<171, 205>>, <<1, 0>>, <<0, 0>>)
                    \o SubSeq(EncodeName(own), 1, Len(EncodeName(own)) - 1)
    IN  question \o PointerChain(Len(question), jumps) \o EncodeName(stored) \o TypeClass

ChainInit ==
    /\ ALLOWLIST = InitialAllowlist
    /\ BLOCKLIST = InitialBlocklist
    /\ stats = InitialStats
    /\ requests = [r \in RequestIds |-> NewRequest]
    /\ arg \in { [own |-> o, jumps |-> n, stored |-> s] :
                    o \in LabelSeqs(MaxLabels), n \in 0..MaxChain,
                    s \in LabelSeqs(MaxLabels) \ {<<>>} }
    /\ res = NotRun
    /\ reply = NoReply

\* parseDomainFromDNS on the message
ChainParse ==
    /\ res.pc = "idle"
    /\ res' = [pc |-> "returned",
               domain |-> parseDomainFromDNS(Chained(arg.own, arg.jumps, arg.stored))]
    /\ UNCHANGED <<ALLOWLIST, BLOCKLIST, stats, requests, arg, reply>>

ChainNext == ChainParse

ChainSpec == ChainInit /\ [][ChainNext]_vars

\* C16: the jump bound aborts only when exceeded: a well-formed name that
\* is reached through at most 5 pointer jumps is extracted completely, the
\* labels at the target of the 5th jump included.
C16_NameWithinBoundExtracted ==
    (res.pc = "returned" /\ arg.jumps <= 5)
        => res.domain = toLowerCase(join(arg.own \o arg.stored))
-----------------------------------------------------------------------------
(* The list lookup of shouldBlock, over many domains and entries *)

\* Longest domain, in labels, given to the lookup
MaxDomainLabels == 4

\* The labels of the domains; parseDomainFromDNS gives a domain with an
\* empty part where a label holds a dot
ListLabels == { L_ads, L_otherads, L_example, L_com, L_sub, <<>> }

RECURSIVE ListLabelSeqs(_)
ListLabelSeqs(n) ==
    IF n = 1 THEN { <<l>> : l \in ListLabels }
    ELSE LET shorter == ListLabelSeqs(n - 1) IN
         shorter \cup { Append(s, l) : s \in { t \in shorter : Len(t) = n - 1 },
                                       l \in ListLabels }

ListDomains == { join(s) : s \in ListLabelSeqs(MaxDomainLabels) }

ListEntries ==
    { join(<<L_ads, L_example, L_com>>), join(<<L_example, L_com>>), L_com, L_ads,
      join(<<L_sub, L_ads>>) }

ListInit ==
    /\ ALLOWLIST = InitialAllowlist
    /\ BLOCKLIST = InitialBlocklist
    /\ stats = InitialStats
    /\ requests = [r \in RequestIds |-> NewRequest]
    /\ arg \in { [domain |-> d, list |-> l] :
                    d \in ListDomains,
                    l \in { {e} : e \in ListEntries } \cup {ListEntries} }
    /\ res = NotRun
    /\ reply = NoReply

\* The exact and parent-domain checks of shouldBlock and of isAllowlisted
\* on arg
ListLookup ==
    /\ res.pc = "idle"
    /\ res' = [pc |-> "returned", listed |-> InBlocklist(arg.list, arg.domain),
               allowlisted |-> isAllowlisted(arg.list, arg.domain)]
    /\ UNCHANGED <<ALLOWLIST, BLOCKLIST, stats, requests, arg, reply>>

ListNext == ListLookup

ListSpec == ListInit /\ [][ListNext]_vars

\* C2: the list lookup of shouldBlock holds of a domain exactly when the
\* domain equals an entry or ends with "." followed by an entry: it matches
\* whole labels and never a substring.
C2_LabelAlignedSuffix ==
    res.pc = "returned" => (res.listed <=> SuffixMatch(arg.list, arg.domain))

\* otherads.example.com ends with the entry ads.example.com and is not listed
C2_Witness ==
    /\ res.pc = "returned"
    /\ arg.list = { join(<<L_ads, L_example, L_com>>) }
    /\ arg.domain = join(<<L_otherads, L_example, L_com>>)
    /\ EndsWith(arg.domain, join(<<L_ads, L_example, L_com>>))
    /\ ~res.listed

-----------------------------------------------------------------------------
(* Blocked queries with every kind of header *)

SynthIds == { <<0, 0>>, <<171, 205>>, <<255, 255>> }

\* Header bytes 2 and 3: a query with RD clear and set, a response, all ones
SynthFlags == { <<0, 0>>, <<1, 0>>, <<129, 128>>, <<255, 255>>, <<120, 15>> }

SynthAncounts == { <<0, 0>>, <<0, 1>>, <<255, 255>> }

SynthNames == { <<L_doubleclick, L_net>>, <<L_ads, L_example, L_com>> }

SynthMessages ==
    { Header(id, flags, ancount) \o EncodeName(name) \o TypeClass :
        id \in SynthIds, flags \in SynthFlags, ancount \in SynthAncounts,
        name \in SynthNames }

SynthInputs == { Post(m) : m \in SynthMessages } \cup { Get(m) : m \in SynthMessages }

SynthNext ==
    \/ \E input \in SynthInputs : Receive(1, input)
    \/ BodyRead(1)
    \/ BodyFail(1)
    \/ CatchBody(1)

SynthSpec == Init /\ [][SynthNext]_vars

\* C6: the response synthesized for a blocked query carries the transaction
\* ID of the request, QR = 1, RA = 1, RCODE = 3 and ANCOUNT = 0, whatever
\* the query holds in those fields.
C6_BlockedResponseHeader ==
    \A r \in RequestIds :
        requests[r].response.kind = "blocked"
        => /\ requests[r].class = "BLOCK"
           /\ IsOriginalQuery(requests[r], requests[r].dnsQuery)
           /\ LET query == requests[r].dnsQuery
                  body == requests[r].response.body
              IN  /\ Len(body) >= 12
                  /\ body[1] = query[1]
                  /\ body[2] = query[2]
                  /\ body[3] \div 128 = 1            \* QR
                  /\ body[4] \div 128 = 1            \* RA
                  /\ body[4] % 16 = 3                \* RCODE
                  /\ body[7] = 0
                  /\ body[8] = 0

\* A blocked query that came with QR = 0, RCODE = 15 and ANCOUNT = 65535
C6_Witness ==
    \E r \in RequestIds :
        /\ requests[r].response.kind = "blocked"
        /\ requests[r].dnsQuery[1] = 171
        /\ requests[r].dnsQuery[3] = 120
        /\ requests[r].dnsQuery[4] = 15
        /\ requests[r].dnsQuery[7] = 255
        /\ requests[r].dnsQuery[8] = 255


(***************************************************************************)
(* The synthesized response next to the query it answers                   *)
(* (src/index.js:308-323).                                                 *)
(***************************************************************************)

\* C14: RD is preserved in a blocked response: the RD bit (the lowest bit
\* of header byte 2) of the synthesized response equals the RD bit of the
\* query, and QR (the highest bit of that byte) is 1.
C14_RecursionDesiredPreserved ==
    \A r \in RequestIds :
        requests[r].response.kind = "blocked"
        => /\ requests[r].response.body[3] % 2 = requests[r].dnsQuery[3] % 2
           /\ requests[r].response.body[3] \div 128 = 1

\* The header bytes createBlockedDNSResponse writes (offsets 2, 3, 6, 7)
WrittenOffsets == {2, 3, 6, 7}

\* C19: a blocked response echoes the query: it is at least as long as the
\* query, every byte of the query other than header bytes 2, 3, 6 and 7 is
\* at the same offset of the response, and the query is still the one the
\* client sent.
C19_BlockedResponseEchoesQuery ==
    \A r \in RequestIds :
        requests[r].response.kind = "blocked"
        => LET query == requests[r].dnsQuery
               body == requests[r].response.body
           IN  /\ Len(body) >= Len(query)
               /\ \A offset \in 0..(Len(query) - 1) :
                      offset \notin WrittenOffsets => body[offset + 1] = query[offset + 1]
               /\ IsOriginalQuery(requests[r], query)

\* A blocked query for ads.example.com with ID 0xABCD and all four written
\* bytes different from what the response holds there
C19_Witness ==
    \E r \in RequestIds :
        /\ requests[r].response.kind = "blocked"
        /\ requests[r].domain = join(<<L_ads, L_example, L_com>>)
        /\ requests[r].dnsQuery[1] = 171
        /\ requests[r].dnsQuery[3] = 120
        /\ requests[r].dnsQuery[7] = 255
        /\ Len(requests[r].response.body) = Len(requests[r].dnsQuery) + 16

(***************************************************************************)
(* How far down the parent domains the lookups go                          *)
(* (src/index.js:261-266, 277-282).                                        *)
(***************************************************************************)

HasNoDot(s) == \A i \in 1..Len(s) : s[i] # 46

\* The last label of a domain of two or more labels, or <<>>
BareTld(domain) ==
    LET parts == split(domain) IN
    IF Len(parts) >= 2 THEN parts[Len(parts)] ELSE <<>>

\* C15 as stated: the lookups stop before the bare TLD: for a domain of two
\* or more labels, a list whose only entry is the domain's last label does
\* not make the domain match, in the Blocklist lookup or the Allowlist one.
C15_BareTldNotLookedUp ==
    (res.pc = "returned" /\ BareTld(arg.domain) # <<>>
                         /\ arg.list = {BareTld(arg.domain)})
        => (~res.listed /\ ~res.allowlisted)

\* C15, amended: the lookups go down to and including the last label
\* alone: the Blocklist lookup and the Allowlist lookup hold exactly when
\* the full name or one of its suffixes parts.slice(i), i up to the last
\* label, is an entry; so an entry that is the bare TLD of a domain makes
\* the domain match.
C15_SuffixesIncludeTld ==
    res.pc = "returned" =>
        LET parts == split(arg.domain)
            found == \E i \in 0..(Len(parts) - 1) : join(Drop(parts, i)) \in arg.list
        IN  /\ res.listed <=> found
            /\ res.allowlisted <=> found
            /\ \A e \in arg.list :
                   (HasNoDot(e) /\ EndsWith(arg.domain, DOT \o e))
                       => (res.listed /\ res.allowlisted)

\* example.com looked up in a list that holds only com
C15_Witness ==
    /\ res.pc = "returned"
    /\ arg.domain = join(<<L_example, L_com>>)
    /\ arg.list = {L_com}
    /\ res.listed
    /\ res.allowlisted
-----------------------------------------------------------------------------
(* trackBlockedDomain on a Map that is full or nearly so *)

\* Number of blocks recorded in a behaviour
MaxBlocks == 3

\* The decimal digits of n
RECURSIVE Digits(_)
Digits(n) == IF n < 10 THEN <<48 + n>> ELSE Digits(n \div 10) \o <<48 + (n % 10)>>

\* "ad<n>.com", which /^ads?\d*\./i blocks
AdDomain(n) == L_ad \o Digits(n) \o DOT \o L_com

\* The counts the Map starts with, by position: all 1, in cycles of 3,
\* falling, rising
CountProfile(p, i) ==
    CASE p = 1 -> 1
      [] p = 2 -> 1 + (i % 3)
      [] p = 3 -> TopCap + 1 - i
      [] p = 4 -> i

\* A Map of n blocked domains, as n or more blocks in some order leave it
TopOf(n, p) == [i \in 1..n |-> [domain |-> AdDomain(i), count |-> CountProfile(p, i)]]

\* The blocks that left the counts of the entries from lo to hi
RECURSIVE SumCounts(_, _, _)
SumCounts(top, lo, hi) ==
    IF lo > hi THEN 0
    ELSE IF lo = hi THEN top[lo].count
    ELSE LET mid == (lo + hi) \div 2 IN
         SumCounts(top, lo, mid) + SumCounts(top, mid + 1, hi)

\* The domains blocked: at the head, in the middle and at the end of the
\* Map, and two that are not in it
TrackDomains ==
    { AdDomain(1), AdDomain(TopCap - 1), AdDomain(TopCap), AdDomain(TopCap + 1),
      AdDomain(TopCap + 2) }

\* POST queries that may await their bodies at one time
MaxPending == 1

\* No POST query awaits its body
NonePending == [d \in TrackDomains |-> 0]

\* The number of POST queries that await their bodies
RECURSIVE PendingCount(_, _)
PendingCount(pending, domains) ==
    IF domains = {} THEN 0
    ELSE LET d == CHOOSE x \in domains : TRUE IN
         pending[d] + PendingCount(pending, domains \ {d})

StatsInit ==
    /\ ALLOWLIST = InitialAllowlist
    /\ BLOCKLIST = InitialBlocklist
    /\ \E n \in {0, TopCap - 1, TopCap}, p \in 1..4 :
          LET top == TopOf(n, p) IN
          stats = [totalQueries |-> SumCounts(top, 1, n), blockedQueries |-> SumCounts(top, 1, n),
                   allowedQueries |-> 0, topBlockedDomains |-> top]
    /\ requests = [r \in RequestIds |-> NewRequest]
    /\ arg = <<>>
    /\ res = [pc |-> "idle", calls |-> 0, pending |-> NonePending]
    /\ reply = NoReply

\* handleDNSQuery takes the branch that blocks the domain
Blocks(domain) ==
    /\ ~Unparsed(domain)
    /\ ~isAllowlisted(ALLOWLIST, domain)
    /\ shouldBlock(BLOCKLIST, domain)

\* A GET query for a domain that is blocked: handleDNSQuery runs from
\* totalQueries++ to trackBlockedDomain without an await
RecordBlocked(domain) ==
    /\ res.calls < MaxBlocks
    /\ Blocks(domain)
    /\ stats' = [stats EXCEPT !.totalQueries = @ + 1,
                              !.blockedQueries = @ + 1,
                              !.topBlockedDomains = trackBlockedDomain(@, domain)]
    /\ arg' = domain
    /\ res' = [res EXCEPT !.calls = @ + 1]
    /\ UNCHANGED <<ALLOWLIST, BLOCKLIST, requests, reply>>

\* A POST query for the domain arrives: totalQueries++, then the await of
\* its body (a query whose body never arrives or fails stays pending: it
\* has counted in totalQueries alone)
ArrivePost(domain) ==
    /\ res.calls < MaxBlocks
    /\ PendingCount(res.pending, TrackDomains) < MaxPending
    /\ stats' = [stats EXCEPT !.totalQueries = @ + 1]
    /\ res' = [res EXCEPT !.calls = @ + 1, !.pending[domain] = @ + 1]
    /\ UNCHANGED <<ALLOWLIST, BLOCKLIST, requests, arg, reply>>

\* The body of a POST query for a domain that is blocked has arrived:
\* handleDNSQuery goes on to blockedQueries++ and trackBlockedDomain
RecordPosted(domain) ==
    /\ res.pending[domain] > 0
    /\ Blocks(domain)
    /\ stats' = [stats EXCEPT !.blockedQueries = @ + 1,
                              !.topBlockedDomains = trackBlockedDomain(@, domain)]
    /\ arg' = domain
    /\ res' = [res EXCEPT !.pending[domain] = @ - 1]
    /\ UNCHANGED <<ALLOWLIST, BLOCKLIST, requests, reply>>

StatsNext ==
    \/ \E domain \in TrackDomains : RecordBlocked(domain)
    \/ \E domain \in TrackDomains : ArrivePost(domain)
    \/ \E domain \in TrackDomains : RecordPosted(domain)

StatsSpec == StatsInit /\ [][StatsNext]_vars

\* The step records a block: blockedQueries++ and trackBlockedDomain
Records == stats'.blockedQueries = stats.blockedQueries + 1

\* The entries of the Map once domain is counted, before any cut
Counted(top, domain) ==
    { e \in Range(top) : e.domain # domain }
    \cup { [domain |-> domain,
            count |-> IF \E e \in Range(top) : e.domain = domain
                      THEN (CHOOSE e \in Range(top) : e.domain = domain).count + 1
                      ELSE 1] }

\* C7: topBlockedDomains holds at most 100 entries after every recording;
\* a recording that takes it past 100 keeps 100 of the entries, and none of
\* those it drops has a higher count than one it keeps.
C7_StatsCap ==
    /\ [](Len(stats.topBlockedDomains) <= 100)
    /\ [][Records
          => LET counted == Counted(stats.topBlockedDomains, arg')
                 kept == Range(stats'.topBlockedDomains)
             IN  /\ kept \subseteq counted
                 /\ Cardinality(kept) = Len(stats'.topBlockedDomains)
                 /\ Cardinality(kept) = Min(Cardinality(counted), 100)
                 /\ \A x \in counted \ kept, y \in kept : x.count <= y.count]_vars

\* The 101st domain was recorded and dropped, and the Map holds 100 entries
\* of unequal counts
C7_Witness ==
    /\ arg # <<>>
    /\ Len(stats.topBlockedDomains) = 100
    /\ \A i \in 1..100 : stats.topBlockedDomains[i].domain # arg
    /\ \E i, j \in 1..100 :
          stats.topBlockedDomains[i].count > stats.topBlockedDomains[j].count


\* The keys of the Map
Keys(top) == { top[i].domain : i \in 1..Len(top) }

\* C22: the table freezes when full: a recording made when
\* topBlockedDomains holds 100 domains leaves it with the same 100 keys;
\* for a domain that is not a key the entry inserted with count 1 is
\* discarded by the same call and every entry is as before, so the domain
\* never enters however often it is blocked; for a domain that is a key
\* its count grows by one and the other entries are as before.
C22_TopTableFreezes ==
    [][ (Len(stats.topBlockedDomains) = 100 /\ Records)
        => LET old == stats.topBlockedDomains
               new == stats'.topBlockedDomains
           IN  /\ Len(new) = 100
               /\ Cardinality(Range(new)) = 100
               /\ Keys(new) = Keys(old)
               /\ arg' \notin Keys(old) => Range(new) = Range(old)
               /\ arg' \in Keys(old) => Range(new) = Counted(old, arg') ]_vars

\* A full Map whose entries all have the count 1, after two or more blocks
\* of a domain that is not in it
C22_Witness ==
    /\ Len(stats.topBlockedDomains) = 100
    /\ \A i \in 1..100 : /\ stats.topBlockedDomains[i].count = 1
                         /\ stats.topBlockedDomains[i].domain # arg
    /\ arg # <<>>
    /\ stats.blockedQueries >= 102

(***************************************************************************)
(* The upstream call: forwardToUpstream makes one fetch, to one resolver,  *)
(* and waits for it without a time limit (src/index.js:166-200).           *)
(***************************************************************************)

\* One request, from its arrival to its response
FetchNext ==
    \/ \E input \in QueryInputs : Receive(1, input)
    \/ BodyRead(1)
    \/ BodyFail(1)
    \/ CatchBody(1)
    \/ \E a \in UpstreamAnswers : FetchResolve(1, a[1], a[2])
    \/ FetchReject(1)

\* The runtime runs a handler that can go on: the await of the catch block
\* settles at once (a GET has no body, the body of a POST is used up or
\* broken).  Whether and when the body of a POST arrives and the resolver
\* answers a fetch is not in the runtime's hands.
FairSpec ==
    /\ Init
    /\ [][FetchNext]_vars
    /\ WF_vars(CatchBody(1))

\* C11: when the call to the primary resolver fails (unreachable or a
\* non-2xx status), exactly one attempt is made on a secondary resolver:
\* a request answered with the resolution failure has made two upstream
\* attempts, and an answer returned after a single attempt is a successful
\* answer of the primary.
C11_SecondaryResolverTried ==
    \A r \in RequestIds :
        requests[r].pc = "done" =>
            /\ requests[r].response.kind = "failed" => requests[r].fetched = 2
            /\ (requests[r].response.kind = "upstream" /\ requests[r].fetched = 1)
                   => requests[r].response.status \in 200..299

\* C12: no request blocks indefinitely: every request that has reached the
\* upstream fetch eventually has a response, even when the resolver never
\* answers.
C12_FetchEventuallyAnswered ==
    (requests[1].pc = "fetch") ~> (requests[1].pc = "done")

(***************************************************************************)
(* The administration endpoints next to one DNS request                    *)
(* (src/index.js:337-418).                                                 *)
(***************************************************************************)

AdminInputs ==
    { Post(Query(<<L_DoubleClick, L_NET>>)),
      Get(Query(<<L_example, L_com>>)),
      GetText(<<65, 42, 65, 65>>) }

\* The domain parameters: missing, new to both lists, in BLOCKLIST, in ALLOWLIST
AdminDomains ==
    { <<>>,
      join(<<L_example, L_com>>),
      join(<<L_doubleclick, L_net>>),
      join(<<L_google, L_com>>) }

AdminNext ==
    \/ \E input \in AdminInputs : Receive(1, input)
    \/ BodyRead(1)
    \/ BodyFail(1)
    \/ CatchBody(1)
    \/ \E a \in UpstreamAnswers : FetchResolve(1, a[1], a[2])
    \/ FetchReject(1)
    \/ \E d \in AdminDomains : handleAddBlock(d)
    \/ \E d \in AdminDomains : handleAddAllow(d)
    \/ handleBlocklist
    \/ handleAllowlist
    \/ handleStats

AdminSpec == Init /\ [][AdminNext]_vars

\* The step is an accepted add on the endpoint: it answers success with a
\* domain that is given, was not in the list, and is the one entry added
AcceptedAdd(endpoint, old, new) ==
    /\ reply' # reply
    /\ reply'.endpoint = endpoint
    /\ reply'.status = 200
    /\ reply'.success
    /\ reply'.domain # <<>>
    /\ reply'.domain \notin old
    /\ new = old \cup {reply'.domain}

\* C13: the rule sets are append-only.  Both lists always hold their initial
\* entries and never lose an entry; a step that changes a list is an accepted
\* /add-block or /add-allow, which adds the given domain to its own list
\* and leaves the other list, the requests and the statistics alone; an
\* add is accepted only for a given domain that was absent, and a rejected
\* add, a step of a DNS request and a read of /stats, /blocklist or
\* /allowlist leave both lists unchanged.
C13_RuleSetsAppendOnly ==
    /\ [](InitialBlocklist \subseteq BLOCKLIST /\ InitialAllowlist \subseteq ALLOWLIST)
    /\ [][ /\ BLOCKLIST \subseteq BLOCKLIST'
           /\ ALLOWLIST \subseteq ALLOWLIST'
           /\ BLOCKLIST' # BLOCKLIST =>
                  /\ AcceptedAdd("/add-block", BLOCKLIST, BLOCKLIST')
                  /\ UNCHANGED <<ALLOWLIST, requests, stats>>
           /\ ALLOWLIST' # ALLOWLIST =>
                  /\ AcceptedAdd("/add-allow", ALLOWLIST, ALLOWLIST')
                  /\ UNCHANGED <<BLOCKLIST, requests, stats>>
           /\ (reply' # reply /\ reply'.endpoint = "/add-block" /\ reply'.status = 200)
                  => AcceptedAdd("/add-block", BLOCKLIST, BLOCKLIST')
           /\ (reply' # reply /\ reply'.endpoint = "/add-allow" /\ reply'.status = 200)
                  => AcceptedAdd("/add-allow", ALLOWLIST, ALLOWLIST')
           /\ (reply' # reply /\ reply'.status = 400)
                  => UNCHANGED <<BLOCKLIST, ALLOWLIST>>
           /\ (reply' # reply /\ reply'.endpoint \in {"/stats", "/blocklist", "/allowlist"})
                  => UNCHANGED <<BLOCKLIST, ALLOWLIST>>
           /\ (requests' # requests \/ stats' # stats)
                  => UNCHANGED <<BLOCKLIST, ALLOWLIST>>
         ]_vars

\* example.com was added to the Blocklist, a later add was rejected, and the
\* DNS request has been answered
C13_Witness ==
    /\ reply.endpoint = "/add-block"
    /\ reply.status = 400
    /\ join(<<L_example, L_com>>) \in BLOCKLIST
    /\ join(<<L_example, L_com>>) \notin ALLOWLIST
    /\ requests[1].pc = "done"

(***************************************************************************)
(* GET requests whose dns parameter is any short text                      *)
(* (src/index.js:126-127, 159-163, 698-708).                               *)
(***************************************************************************)

\* Longest dns parameter
MaxParam == 3

\* "A", "-", "_", "*" and "="
ParamChars == {65, 45, 95, 42, 61}

RECURSIVE Params(_)
Params(n) ==
    IF n = 0 THEN {<<>>}
    ELSE LET shorter == Params(n - 1) IN
         shorter \cup { Append(t, c) : t \in { s \in shorter : Len(s) = n - 1 },
                                       c \in ParamChars }

DecodeInputs == { GetText(t) : t \in Params(MaxParam) }

DecodeNext ==
    \/ \E input \in DecodeInputs : Receive(1, input)
    \/ CatchBody(1)
    \/ \E a \in UpstreamAnswers : FetchResolve(1, a[1], a[2])
    \/ FetchReject(1)

DecodeSpec == Init /\ [][DecodeNext]_vars

\* A letter, a digit, "+", "/", "-" or "_"
IsBase64Char(c) ==
    \/ c >= 65 /\ c <= 90
    \/ c >= 97 /\ c <= 122
    \/ c >= 48 /\ c <= 57
    \/ c \in {43, 47, 45, 95}

\* The text is not base64url: it holds a character that is none of the
\* alphabet, of the padding and of white space, or it is made of 4n + 1
\* characters of the alphabet
NotBase64Url(dns) ==
    \/ \E i \in 1..Len(dns) :
          ~IsBase64Char(dns[i]) /\ dns[i] # 61 /\ ~IsAsciiWhitespace(dns[i])
    \/ (\A i \in 1..Len(dns) : IsBase64Char(dns[i])) /\ Len(dns) % 4 = 1

\* The request came as a GET with a dns parameter that is not base64url
MalformedGet(req) ==
    /\ req.pc # "new"
    /\ req.input.method = "GET"
    /\ req.input.hasDns
    /\ NotBase64Url(req.input.dns)

\* C18 as stated: malformed base64 is not an error: base64UrlDecode
\* returns an empty buffer instead of throwing, so the request is never in
\* the catch block and goes the way of a parse failure on the empty query.
C18_MalformedDecodesToEmpty ==
    \A r \in RequestIds :
        MalformedGet(requests[r])
        => /\ requests[r].pc # "catch"
           /\ requests[r].class = "UNPARSED"
           /\ requests[r].dnsQuery = <<>>

\* C18, amended: for a GET whose dns parameter is not base64url,
\* base64UrlDecode throws; the catch block of handleDNSQuery forwards the
\* request's body, which is empty, so the request has the stats updates
\* (totalQueries alone) and the bytes forwarded upstream (none) of a parse
\* failure on an empty query, without having been parsed or classified.
C18_MalformedForwardsEmptyBody ==
    \A r \in RequestIds :
        MalformedGet(requests[r])
        => /\ requests[r].class = "none"
           /\ requests[r].incTotal = 1
           /\ requests[r].incBlocked = 0
           /\ requests[r].incAllowed = 0
           /\ \/ requests[r].pc = "catch" /\ requests[r].fetched = 0
              \/ /\ requests[r].pc \in {"fetch", "done"}
                 /\ requests[r].fetched = 1
                 /\ requests[r].sent = <<>>
                 /\ requests[r].response.kind \in {"none", "upstream", "failed"}

\* The parameter "A*" went through the catch block and was answered by the
\* upstream
C18_Witness ==
    \E r \in RequestIds :
        /\ requests[r].input.method = "GET"
        /\ requests[r].input.dns = <<65, 42>>
        /\ requests[r].pc = "done"
        /\ requests[r].class = "none"
        /\ requests[r].sent = <<>>
        /\ requests[r].response.kind = "upstream"

(***************************************************************************)
(* Concurrent requests: the counters once every request has its response   *)
(* (src/index.js:117-164, 295-306).                                        *)
(***************************************************************************)

\* The requests that were answered with the synthesized response
BlockedResponses == { r \in RequestIds : requests[r].response.kind = "blocked" }

\* The requests that have arrived
Received == { r \in RequestIds : requests[r].pc # "new" }

\* C20: no corruption or lost update under concurrent requests: whatever
\* the interleaving, the Map never has more than 100 entries in a state
\* another request or a read of /stats can observe, and when all requests
\* have finished totalQueries is the number of requests received and
\* blockedQueries is the number of blocked responses returned.
C20_CountersMatchResponses ==
    /\ Len(stats.topBlockedDomains) <= TopCap
    /\ (\A r \in RequestIds : requests[r].pc = "done")
           => /\ stats.totalQueries = Cardinality(Received)
              /\ stats.blockedQueries = Cardinality(BlockedResponses)

\* The request raised an exception in handleDNSQuery: it is in the catch
\* block, was ended by the catch block's own exception, or was forwarded by
\* the catch block, without its parse or after its blocked response failed
Raised(req) ==
    \/ req.pc = "catch"
    \/ req.response.kind = "thrown"
    \/ /\ req.pc \in {"fetch", "done"}
       /\ req.class \in {"none", "BLOCK"}
       /\ req.response.kind \notin {"blocked", "invalid"}

\* The requests the claim says increment totalQueries only: still in
\* flight ahead of their classification, of an invalid method, without a
\* domain, or with an exception
CountedInTotalOnly ==
    { r \in RequestIds :
        /\ requests[r].pc # "new"
        /\ \/ requests[r].pc = "body"
           \/ requests[r].response.kind = "invalid"
           \/ requests[r].class = "UNPARSED"
           \/ Raised(requests[r]) }

\* C21: the counter invariant: in every state blockedQueries +
\* allowedQueries is at most totalQueries, each request has added at most
\* one to blockedQueries + allowedQueries, and totalQueries exceeds the sum
\* by exactly the number of requests that are still in flight, had an
\* invalid method, gave no domain or raised an exception.
C21_CounterInvariant ==
    /\ stats.blockedQueries + stats.allowedQueries <= stats.totalQueries
    /\ \A r \in RequestIds : requests[r].incBlocked + requests[r].incAllowed <= 1
    /\ stats.totalQueries - (stats.blockedQueries + stats.allowedQueries)
           = Cardinality(CountedInTotalOnly)
====
